---- MODULE Spec2Model ----
(***************************************************************************)
(* Model of pyytlounge's YtLoungeApi (src/src/pyytlounge/wrapper.py): the  *)
(* pairing / session state of one client instance, used by several asyncio *)
(* tasks.  One action is the code a task runs between two suspension       *)
(* points (an awaited network reply or an awaited observer callback).      *)
(***************************************************************************)
EXTENDS Integers, Sequences, FiniteSets, TLC

VARIABLES
    auth,            \* self.auth: [screen_id, lounge_id_token]
    sid,             \* self._sid
    gsession,        \* self._gsession
    last_event_id,   \* self._last_event_id
    command_offset,  \* self._command_offset
    pc,              \* per task: the await it is suspended at
    op,              \* per task: the public method it is in
    events,          \* per task: the entry _process_events is suspended at
    text,            \* per task: the chunk of the bind response it is in
    result,          \* per task: what the call has just returned or raised
    srvSid,          \* server: number of the last session it created
    srvOfs,          \* server: the ofs of the commands received on that session
    wire,            \* network: the request just sent, until the server has it
    reply,           \* network: the response, or the failure to read it, that the
                     \* call that just returned ended on, and the request it answers
    input,           \* a call of one of the functions checked on their own
    output           \* what that call returned or raised

vars == <<auth, sid, gsession, last_event_id, command_offset,
          pc, op, events, text, result, srvSid, srvOfs, wire, reply,
          input, output>>

(* the function calls checked on their own, apart from the client's run *)
harness == <<input, output>>

client == <<auth, sid, gsession, last_event_id, command_offset>>

----------------------------------------------------------------------------
(* Bounds *)
MaxSid == 2          \* sessions the server creates
MaxOffset == 3       \* cap of the command sequence
MaxBatchLen == 3     \* entries per event batch
MaxBindBatches == 1  \* chunks in the body of one bind response
MaxDevices == 2      \* devices in the list of one loungeStatus event
MaxFrames == 2       \* frames in one stream given to the chunk decoder

(* Python's None, for the integer-coded fields *)
None == 0

Tasks == {"app", "loop"}
Tokens == {1}
ScreenIds == {1}
FirstIds == {1}      \* id of the first entry of a batch

----------------------------------------------------------------------------
(* HTTP responses: status, reason phrase and body; the phrase and the body *)
(* are modelled by the set of marker strings they contain.                 *)
Rsp(s, r, b) == [status |-> s, reason |-> r, text |-> b]

NoRsp == Rsp(None, {}, {})

(* a response and the kind of request it answers *)
Reply(k, r) == [to |-> k, rsp |-> r]

NoReply == Reply("none", NoRsp)

(* the call ended on exception e, raised while the response to request k  *)
(* was being read                                                          *)
Fault(k, e) == Reply(k, Rsp(None, {e}, {}))

LostRows == {<<400, "Unknown SID">>, <<410, "Gone">>, <<401, "Expired">>}

(* a session-loss row is announced in the reason phrase or in the body;   *)
(* 304 stands for the statuses below 400 that are not 2xx, 500 for the     *)
(* errors outside the rows                                                 *)
Responses ==
    {Rsp(200, {}, {}), Rsp(304, {}, {}), Rsp(500, {}, {})}
    \cup {Rsp(row[1], {row[2]}, {}) : row \in LostRows}
    \cup {Rsp(row[1], {}, {row[2]}) : row \in LostRows}

(* a call of a function and its result, for the functions checked alone *)
NoCall == [fn |-> "none"]

NoResult == [fn |-> "none"]

(* Requests *)
Req(k, s, g, a, tok, o, r) ==
    [kind |-> k, SID |-> s, gsessionid |-> g, AID |-> a,
     loungeIdToken |-> tok, ofs |-> o, RID |-> r]

NoReq == Req("none", None, None, None, None, None, None)

----------------------------------------------------------------------------
(* Event batches.  An entry is (id, [type, arg]); 'c' and 'S' carry the    *)
(* identifier of the server's session n, loungeStatus carries whether the  *)
(* screen's device info names a blacklisted client.  Ids are consecutive   *)
(* within a batch.  The types of a batch's entries are the server's choice *)
(* and are drawn when _process_events reaches the entry: what an entry not *)
(* yet reached holds has no effect on the client.                          *)
Entry(i, ty, a, b) == [id |-> i, type |-> ty, arg |-> a, blacklisted |-> b]

NoEntry == Entry(None, "none", None, FALSE)

Entries(i, n) ==
    {Entry(i, "c", n, FALSE), Entry(i, "S", n, FALSE),
     Entry(i, "onStateChange", None, FALSE),
     Entry(i, "onPlaybackSpeedChanged", None, FALSE),
     Entry(i, "loungeStatus", None, FALSE), Entry(i, "loungeStatus", None, TRUE),
     Entry(i, "loungeScreenDisconnected", None, FALSE),
     Entry(i, "noop", None, FALSE)}

(* the batch being processed: the entry in progress *)
Batch(e) == [cur |-> e]

NoBatch == Batch(NoEntry)

----------------------------------------------------------------------------
(* The client's fields as one record, for the code that runs between two   *)
(* awaits.                                                                 *)
Cur == [screen_id |-> auth.screen_id, lounge_id_token |-> auth.lounge_id_token,
        sid |-> sid, gsession |-> gsession, last_event_id |-> last_event_id,
        command_offset |-> command_offset]

Install(cs) ==
    /\ auth' = [screen_id |-> cs.screen_id, lounge_id_token |-> cs.lounge_id_token]
    /\ sid' = cs.sid
    /\ gsession' = cs.gsession
    /\ last_event_id' = cs.last_event_id
    /\ command_offset' = cs.command_offset

Paired(cs) == cs.screen_id # None

Linked(cs) == Paired(cs) /\ cs.lounge_id_token # None

Connected(cs) == cs.sid # None /\ cs.gsession # None

paired == Paired(Cur)

linked == Linked(Cur)

connected == Connected(Cur)

(* A _lounge_token_expired that forgets to unset the token; C8 tells the    *)
(* two apart.                                                              *)
LoungeTokenKept(cs) == cs

LoungeTokenExpired(cs) == [cs EXCEPT !.lounge_id_token = None]

(* A _connection_lost that keeps last_event_id; C3 tells the two apart. *)
ConnectionLostKeepsEventId(cs) == [cs EXCEPT !.sid = None, !.gsession = None]

ConnectionLost(cs) ==
    [cs EXCEPT !.sid = None, !.gsession = None, !.last_event_id = None]

(* A _handle_session_result without the 410 'Gone' row; C2 tells the two   *)
(* apart.                                                                  *)
HandleSessionResultNoGone(cs, status_code, reason) ==
    IF status_code = 400 /\ "Unknown SID" \in reason
    THEN [cs |-> [cs EXCEPT !.sid = None, !.gsession = None, !.last_event_id = None],
          ok |-> FALSE]
    ELSE IF status_code = 401 /\ "Expired" \in reason
    THEN [cs |-> [cs EXCEPT !.sid = None, !.gsession = None, !.last_event_id = None,
                            !.lounge_id_token = None],
          ok |-> FALSE]
    ELSE [cs |-> cs, ok |-> TRUE]

(* _handle_session_result: the new fields and the returned flag *)
HandleSessionResult(cs, status_code, reason) ==
    IF status_code = 400 /\ "Unknown SID" \in reason
    THEN [cs |-> ConnectionLost(cs), ok |-> FALSE]
    ELSE IF status_code = 410 /\ "Gone" \in reason
    THEN [cs |-> ConnectionLost(cs), ok |-> FALSE]
    ELSE IF status_code = 401 /\ "Expired" \in reason
    THEN [cs |-> LoungeTokenExpired(ConnectionLost(cs)), ok |-> FALSE]
    ELSE [cs |-> cs, ok |-> TRUE]

CommonConnectionParameters(cs, kind, o, rid) ==
    Req(kind, cs.sid, cs.gsession, cs.last_event_id, cs.lounge_id_token, o, rid)

----------------------------------------------------------------------------
(* A _process_event that drops onStateChange; C12 tells the two apart. *)
AwaitsCallbackNoStateChange(e) ==
    e.type \in {"onPlaybackSpeedChanged", "loungeScreenDisconnected"}

(* One turn of the loop of _process_events, with _process_event: entry e  *)
(* on fields cs.  stop is "next" (go on with the next entry), "callback"   *)
(* (an observer callback is awaited first) or "raise" (NotSupported).      *)
AwaitsCallback(e) ==
    e.type \in {"onStateChange", "onPlaybackSpeedChanged", "loungeScreenDisconnected"}

(* A _process_event that takes an event it does not handle for an error;   *)
(* C30 tells the two apart.                                                *)
UnprocessedFatal(cs, e) == [cs |-> cs, cur |-> e, stop |-> "raise"]

(* the branches of _process_event for "noop" and for any other type *)
Unprocessed(cs, e) == [cs |-> cs, cur |-> e, stop |-> "next"]

(* A _process_event that lets a blacklisted client pass; C13 tells the two *)
(* apart.                                                                  *)
ProcessEntryNoBlacklist(cs, e) ==
    IF e.type = "c" THEN [cs |-> [cs EXCEPT !.sid = e.arg], cur |-> e, stop |-> "next"]
    ELSE IF e.type = "S" THEN [cs |-> [cs EXCEPT !.gsession = e.arg], cur |-> e, stop |-> "next"]
    ELSE IF e.type \in {"onStateChange", "onPlaybackSpeedChanged",
                        "loungeScreenDisconnected"}
    THEN [cs |-> cs, cur |-> e, stop |-> "callback"]
    ELSE [cs |-> cs, cur |-> e, stop |-> "next"]

ProcessEntry(cs, e) ==
    IF e.type = "c" THEN [cs |-> [cs EXCEPT !.sid = e.arg], cur |-> e, stop |-> "next"]
    ELSE IF e.type = "S" THEN [cs |-> [cs EXCEPT !.gsession = e.arg], cur |-> e, stop |-> "next"]
    ELSE IF AwaitsCallback(e) THEN [cs |-> cs, cur |-> e, stop |-> "callback"]
    ELSE IF e.type = "loungeStatus"
    THEN [cs |-> cs, cur |-> e, stop |-> IF e.blacklisted THEN "raise" ELSE "next"]
    ELSE Unprocessed(cs, e)

(* A _process_events that does not store the id of the final entry; C25   *)
(* tells the two apart.                                                    *)
BatchDoneNoStore(cs, last_id) == cs

(* the end of _process_events *)
BatchDone(cs, last_id) == [cs EXCEPT !.last_event_id = last_id]

Out(cs, e, stop) == [cs |-> cs, cur |-> e, stop |-> stop]

(* _process_events from the entry with id i up to the next await, started  *)
(* with any of the fields in css: the set of possible outcomes, over the   *)
(* server's choice of the entries and of the length of the batch.  stop    *)
(* says why the run ended: "callback", "raise", or "done" (the batch is    *)
(* finished and last_event_id stored).                                     *)
RECURSIVE ProcessEvents(_, _, _)
ProcessEvents(css, i, srv) ==
    LET outs == {ProcessEntry(cs, e) : cs \in css, e \in Entries(i, srv)}
        goOn == {o.cs : o \in {x \in outs : x.stop = "next"}}
    IN  {Out(o.cs, o.cur, o.stop) : o \in {x \in outs : x.stop # "next"}}
        \cup {Out(BatchDone(cs, i), NoEntry, "done") : cs \in goOn}
        \cup (IF i < MaxBatchLen THEN ProcessEvents(goOn, i + 1, srv) ELSE {})

(* entry e is finished: it was the last one, or the batch goes on *)
AfterEntry(cs, e, srv) ==
    {Out(BatchDone(cs, e.id), NoEntry, "done")}
    \cup (IF e.id < MaxBatchLen THEN ProcessEvents({cs}, e.id + 1, srv) ELSE {})

(* a new batch has been decoded *)
NewBatch(css, srv) == UNION {ProcessEvents(css, i, srv) : i \in FirstIds}

(* connect(): the chunks of the response text one after the other; outs    *)
(* are the outcomes of chunk k                                             *)
RECURSIVE ProcessText(_, _, _)
ProcessText(outs, k, srv) ==
    LET ends == {o \in outs : o.stop = "done"} IN
    {[cs |-> o.cs, cur |-> o.cur, stop |-> o.stop, txt |-> k] : o \in outs}
    \cup (IF k < MaxBindBatches /\ ends # {}
          THEN ProcessText(NewBatch({o.cs : o \in ends}, srv), k + 1, srv)
          ELSE {})

(* subscribe(): one chunk of the stream per turn of its loop *)
ProcessChunk(outs) ==
    {[cs |-> o.cs, cur |-> o.cur, stop |-> o.stop, txt |-> 0] : o \in outs}

----------------------------------------------------------------------------
ClientInit ==
    /\ auth = [screen_id |-> None, lounge_id_token |-> None]
    /\ sid = None
    /\ gsession = None
    /\ last_event_id = None
    /\ command_offset = 1
    /\ pc = [t \in Tasks |-> "idle"]
    /\ op = [t \in Tasks |-> "none"]
    /\ events = [t \in Tasks |-> NoBatch]
    /\ text = [t \in Tasks |-> 0]
    /\ result = [t \in Tasks |-> "none"]
    /\ srvSid = 0
    /\ srvOfs = {}
    /\ wire = NoReq
    /\ reply = NoReply

Init ==
    /\ ClientInit
    /\ input = NoCall
    /\ output = NoResult

Set(f, t, v) == [f EXCEPT ![t] = v]

(* what task t does next: its await point, its result so far, the batch   *)
(* and the response text it is working on                                  *)
SetTask(t, p, r, b, txt) ==
    /\ pc' = Set(pc, t, p)
    /\ result' = Set(result, t, r)
    /\ events' = Set(events, t, b)
    /\ text' = Set(text, t, txt)

(* task t returns r from, or raises r in, the public method it is in *)
Return(t, r) == SetTask(t, "idle", r, NoBatch, 0)

Bool(b) == IF b THEN "True" ELSE "False"

(* the response r to request k that task t's call ends on, if this step   *)
(* ends the call                                                           *)
Ended(t, k, r) == IF result'[t] # "none" THEN Reply(k, r) ELSE NoReply

(* A request is on the wire only for the instant between send and receive, *)
(* a result is held only for the instant between return and its use: the   *)
(* tasks run when nothing is on the wire and no result waits for its       *)
(* caller.                                                                 *)
Settled == wire.kind = "none" /\ \A t \in Tasks : result[t] = "none"

(* task t is resumed at await point p *)
At(t, p) == pc[t] = p /\ Settled

(* task t calls public method o *)
Call(t, o) ==
    /\ At(t, "idle")
    /\ op' = Set(op, t, o)

(* A connect() that does not reset the command sequence; C7 tells the two  *)
(* apart.                                                                  *)
ConnectDoneNoReset(cs) == cs

(* connect(), after the last batch of the response *)
ConnectDone(cs) == [cs EXCEPT !.command_offset = 1]

(* A subscribe() that reads on whatever the batch left; C18 tells the two  *)
(* apart.                                                                  *)
SubscribeGoesOnRegardless(cs) == TRUE

(* subscribe(), after each batch: go on reading only while connected *)
SubscribeGoesOn(cs) == Connected(cs)

(* Task t, inside connect() or subscribe(), has run _process_events up to  *)
(* o: suspend at the callback, raise, return, or wait for the next batch.  *)
Continue(t, o) ==
    IF o.stop = "callback"
    THEN Install(o.cs) /\ SetTask(t, "callback", "none", Batch(o.cur), o.txt)
    ELSE IF o.stop = "raise"
    THEN Install(o.cs) /\ Return(t, "NotSupported")
    ELSE IF op[t] = "connect"
    THEN Install(ConnectDone(o.cs)) /\ Return(t, Bool(Connected(ConnectDone(o.cs))))
    ELSE IF SubscribeGoesOn(o.cs)
    THEN Install(o.cs) /\ SetTask(t, "stream_wait", "none", NoBatch, 0)
    ELSE Install(o.cs) /\ Return(t, "None")

(* task t goes on with the batch it was processing when it suspended *)
Resume(t, outs) ==
    IF op[t] = "connect" THEN ProcessText(outs, text[t], srvSid) ELSE ProcessChunk(outs)

----------------------------------------------------------------------------
(* pair(pairing_code) *)
Pair(t) ==
    /\ Call(t, "pair")
    /\ SetTask(t, "pair_wait", "none", NoBatch, 0)
    /\ wire' = (Req("get_screen", None, None, None, None, None, None))
    /\ UNCHANGED <<client, srvSid, srvOfs, reply>>
    /\ UNCHANGED harness

PairResponse(t) ==
    /\ At(t, "pair_wait")
    /\ \/ \E s \in ScreenIds, k \in Tokens :
            LET cs == [Cur EXCEPT !.screen_id = s, !.lounge_id_token = k] IN
            Install(cs) /\ Return(t, Bool(Linked(cs)))
       \/ \E s \in ScreenIds :
            Install([Cur EXCEPT !.screen_id = s]) /\ Return(t, "Error")
       \/ UNCHANGED client /\ Return(t, "Error")
    /\ UNCHANGED <<op, wire, srvSid, srvOfs, reply>>
    /\ UNCHANGED harness

(* refresh_auth() *)
RefreshSend(t, cs) ==
    /\ Install(cs)
    /\ SetTask(t, "refresh_wait", "none", NoBatch, 0)
    /\ wire' = (Req("get_lounge_token_batch", None, None, None, None, None, None))

RefreshAuth(t) ==
    /\ Call(t, "refresh_auth")
    /\ IF ~paired
       THEN UNCHANGED <<client, wire>> /\ Return(t, "NotPaired")
       ELSE RefreshSend(t, Cur)
    /\ UNCHANGED <<srvSid, srvOfs, reply>>
    /\ UNCHANGED harness

(* pair_with_screen_id(screen_id) *)
PairWithScreenId(t) ==
    /\ Call(t, "pair_with_screen_id")
    /\ \E s \in ScreenIds : RefreshSend(t, [Cur EXCEPT !.screen_id = s])
    /\ UNCHANGED <<srvSid, srvOfs, reply>>
    /\ UNCHANGED harness

RefreshResponse(t) ==
    /\ At(t, "refresh_wait")
    /\ \/ \E s \in ScreenIds, k \in Tokens :
            LET cs == [Cur EXCEPT !.screen_id = s, !.lounge_id_token = k] IN
            Install(cs) /\ Return(t, Bool(Linked(cs)))
       \/ \E s \in ScreenIds :
            Install([Cur EXCEPT !.screen_id = s]) /\ Return(t, "Error")
       \/ UNCHANGED client /\ Return(t, "Error")
    /\ UNCHANGED <<op, wire, srvSid, srvOfs, reply>>
    /\ UNCHANGED harness

(* is_available() *)
IsAvailable(t) ==
    /\ Call(t, "is_available")
    /\ IF ~linked
       THEN UNCHANGED wire /\ Return(t, "NotLinked")
       ELSE /\ SetTask(t, "available_wait", "none", NoBatch, 0)
            /\ wire' = (Req("get_screen_availability", None, None, None,
                                      auth.lounge_id_token, None, None))
    /\ UNCHANGED <<client, srvSid, srvOfs, reply>>
    /\ UNCHANGED harness

IsAvailableResponse(t) ==
    /\ At(t, "available_wait")
    /\ \E online \in BOOLEAN : Return(t, Bool(online))
    /\ UNCHANGED <<client, op, wire, srvSid, srvOfs, reply>>
    /\ UNCHANGED harness

----------------------------------------------------------------------------
(* connect() *)
Connect(t) ==
    /\ Call(t, "connect")
    /\ IF ~linked
       THEN UNCHANGED wire /\ Return(t, "NotLinked")
       ELSE /\ SetTask(t, "connect_wait", "none", NoBatch, 0)
            /\ wire' = (Req("bind", None, None, None,
                                      auth.lounge_id_token, None, 1))
    /\ UNCHANGED <<client, srvSid, srvOfs, reply>>
    /\ UNCHANGED harness

(* the server answers 200 to a bind request by creating a session *)
ConnectResponse(t, r) ==
    /\ At(t, "connect_wait")
    /\ IF r.status = 401
       THEN /\ Install(LoungeTokenExpired(Cur))
            /\ Return(t, "False")
            /\ UNCHANGED <<srvSid, srvOfs>>
       ELSE IF r.status # 200
       THEN /\ UNCHANGED client
            /\ Return(t, "False")
            /\ UNCHANGED <<srvSid, srvOfs>>
       ELSE /\ srvSid < MaxSid
            /\ srvSid' = srvSid + 1
            /\ srvOfs' = {}
            /\ \E o \in ProcessText(NewBatch({Cur}, srvSid + 1), 1, srvSid + 1) :
                 Continue(t, o)
    /\ UNCHANGED <<op, wire>>
    /\ reply' = Ended(t, "bind", r)
    /\ UNCHANGED harness

----------------------------------------------------------------------------
(* _command(command, command_parameters) up to its POST *)
CommandBody(cs) == cs.command_offset

(* A _command that takes RID before the increment; C27 tells the two apart. *)
CommandRIDSame(cs) == cs.command_offset

CommandRID(cs) == cs.command_offset + 1

CommandSend(t, cs) ==
    /\ cs.command_offset < MaxOffset
    /\ Install([cs EXCEPT !.command_offset = cs.command_offset + 1])
    /\ wire' = (CommonConnectionParameters(cs, "command",
                              CommandBody(cs), CommandRID(cs)))

(* A _command without the connected() check; C4 tells the two apart. *)
CommandUnchecked(t) ==
    /\ Call(t, "command")
    /\ CommandSend(t, Cur)
    /\ SetTask(t, "command_wait", "none", NoBatch, 0)
    /\ UNCHANGED <<srvSid, srvOfs, reply>>
    /\ UNCHANGED harness

Command(t) ==
    /\ Call(t, "command")
    /\ IF ~connected
       THEN UNCHANGED <<client, wire>> /\ Return(t, "NotConnected")
       ELSE CommandSend(t, Cur) /\ SetTask(t, "command_wait", "none", NoBatch, 0)
    /\ UNCHANGED <<srvSid, srvOfs, reply>>
    /\ UNCHANGED harness

(* A raise_for_status() that lets every status pass; C11 tells the two    *)
(* apart.                                                                  *)
SessionOutcomeNoRaise(h, r) == IF ~h.ok THEN "False" ELSE "True"

(* the outcome of a command or disconnect request once its reply is read: *)
(* False on session loss, else what raise_for_status() makes of the status *)
SessionOutcome(h, r) ==
    IF ~h.ok THEN "False"
    ELSE IF r.status >= 400 THEN "ClientResponseError"
    ELSE "True"

CommandResponse(t, r) ==
    /\ At(t, "command_wait")
    /\ LET h == HandleSessionResult(Cur, r.status, r.text) IN
       IF op[t] = "command" \/ SessionOutcome(h, r) = "ClientResponseError"
       THEN Install(h.cs) /\ Return(t, SessionOutcome(h, r))
       ELSE \* get_now_playing() inside _process_event: the result is dropped
            \E o \in Resume(t, AfterEntry(h.cs, events[t].cur, srvSid)) :
                Continue(t, o)
    /\ UNCHANGED <<op, wire, srvSid, srvOfs>>
    /\ reply' = Ended(t, "command", r)
    /\ UNCHANGED harness

(* disconnect() *)
Disconnect(t) ==
    /\ Call(t, "disconnect")
    /\ IF ~connected
       THEN UNCHANGED wire /\ Return(t, "NotConnected")
       ELSE /\ SetTask(t, "disconnect_wait", "none", NoBatch, 0)
            /\ wire' = (CommonConnectionParameters(Cur, "terminate",
                                      None, command_offset))
    /\ UNCHANGED <<client, srvSid, srvOfs, reply>>
    /\ UNCHANGED harness

DisconnectResponse(t, r) ==
    /\ At(t, "disconnect_wait")
    /\ LET h == HandleSessionResult(Cur, r.status, r.text) IN
       Install(h.cs) /\ Return(t, SessionOutcome(h, r))
    /\ UNCHANGED <<op, wire, srvSid, srvOfs>>
    /\ reply' = Ended(t, "terminate", r)
    /\ UNCHANGED harness

----------------------------------------------------------------------------
(* subscribe() *)
Subscribe(t) ==
    /\ Call(t, "subscribe")
    /\ IF ~connected
       THEN UNCHANGED wire /\ Return(t, "NotConnected")
       ELSE /\ SetTask(t, "subscribe_wait", "none", NoBatch, 0)
            /\ wire' = (CommonConnectionParameters(Cur, "subscribe", None, None))
    /\ UNCHANGED <<client, srvSid, srvOfs, reply>>
    /\ UNCHANGED harness

SubscribeResponse(t, r) ==
    /\ At(t, "subscribe_wait")
    /\ LET h == HandleSessionResult(Cur, r.status, r.reason) IN
       /\ Install(h.cs)
       /\ IF ~h.ok
          THEN Return(t, "None")
          ELSE SetTask(t, "stream_wait", "none", NoBatch, 0)
    /\ UNCHANGED <<op, wire, srvSid, srvOfs>>
    /\ reply' = Ended(t, "subscribe", r)
    /\ UNCHANGED harness

(* the next chunk of the subscribe stream has been read *)
StreamBatch(t) ==
    /\ At(t, "stream_wait")
    /\ \E o \in ProcessChunk(NewBatch({Cur}, srvSid)) : Continue(t, o)
    /\ UNCHANGED <<op, wire, srvSid, srvOfs, reply>>
    /\ UNCHANGED harness

(* the subscribe stream closes *)
StreamEnd(t) ==
    /\ At(t, "stream_wait")
    /\ Return(t, "None")
    /\ UNCHANGED <<client, op, wire, srvSid, srvOfs, reply>>
    /\ UNCHANGED harness

(* subscribe(): what its except clauses make of exception e raised inside *)
(* the try block; "None" is the normal return                              *)
SubscribeExcept(e) == IF e = "ClientPayloadError" THEN "None" ELSE e

(* what reading the stream may fail with: a payload cut short, or the     *)
(* connection lost                                                         *)
StreamErrors == {"ClientPayloadError", "ClientConnectionError"}

(* reading the next line of the subscribe stream raises e *)
StreamError(t, e) ==
    /\ At(t, "stream_wait")
    /\ Return(t, SubscribeExcept(e))
    /\ reply' = Fault("subscribe", e)
    /\ UNCHANGED <<client, op, wire, srvSid, srvOfs>>
    /\ UNCHANGED harness

(* _command(): resp.text() raises ClientPayloadError, the body of the     *)
(* reply being cut short; _command logs and re-raises it, and so does      *)
(* connect(), while in subscribe() it meets the except clauses             *)
CommandPayloadError(t) ==
    /\ At(t, "command_wait")
    /\ Return(t, IF op[t] = "subscribe" THEN SubscribeExcept("ClientPayloadError")
                 ELSE "ClientPayloadError")
    /\ reply' = Fault("command", "ClientPayloadError")
    /\ UNCHANGED <<client, op, wire, srvSid, srvOfs>>
    /\ UNCHANGED harness

(* the application cancels the task that is inside subscribe(): the await *)
(* the task is suspended at raises CancelledError, which subscribe() (and  *)
(* _command() on the way) re-raises                                        *)
Cancel(t) ==
    /\ op[t] = "subscribe"
    /\ pc[t] \in {"subscribe_wait", "stream_wait", "callback", "command_wait"}
    /\ Settled
    /\ Return(t, "CancelledError")
    /\ UNCHANGED <<client, op, wire, srvSid, srvOfs, reply>>
    /\ UNCHANGED harness

----------------------------------------------------------------------------
(* A handling of loungeScreenDisconnected that forgets the screen as well; *)
(* C22 tells the two apart.                                                *)
AfterDisconnectedUnpairs(cs) ==
    [LoungeTokenExpired(ConnectionLost(cs)) EXCEPT !.screen_id = None]

(* _process_event after the awaited observer callback has returned *)
AfterDisconnected(cs) == LoungeTokenExpired(ConnectionLost(cs))

AfterCallback(cs, e) ==
    IF e.type = "loungeScreenDisconnected" THEN AfterDisconnected(cs) ELSE cs

CallbackReturn(t) ==
    /\ At(t, "callback")
    /\ LET e == events[t].cur IN
       IF e.type = "onPlaybackSpeedChanged"
       THEN \* get_now_playing()
            IF ~connected
            THEN UNCHANGED <<client, wire>> /\ Return(t, "NotConnected")
            ELSE /\ CommandSend(t, Cur)
                 /\ SetTask(t, "command_wait", "none", events[t], text[t])
       ELSE /\ \E o \in Resume(t, AfterEntry(AfterCallback(Cur, e), e, srvSid)) :
                  Continue(t, o)
            /\ UNCHANGED wire
    /\ UNCHANGED <<op, srvSid, srvOfs, reply>>
    /\ UNCHANGED harness

----------------------------------------------------------------------------
(* The request on the wire reaches the server, which records the ofs of a  *)
(* command of its current session.                                         *)
Receive ==
    /\ wire # NoReq
    /\ wire' = NoReq
    /\ srvOfs' = IF wire.kind = "command" /\ wire.SID = srvSid
                  THEN srvOfs \cup {wire.ofs}
                  ELSE srvOfs
    /\ UNCHANGED <<client, pc, op, events, text, result, srvSid, reply>>
    /\ UNCHANGED harness

(* The caller of task t takes what its call returned or raised. *)
Returned(t) ==
    /\ result[t] # "none"
    /\ result' = Set(result, t, "none")
    /\ op' = Set(op, t, "none")
    /\ reply' = NoReply
    /\ UNCHANGED <<client, pc, events, text, srvSid, srvOfs, wire>>
    /\ UNCHANGED harness

(* The embedding application (test.py, spec section 7): one task pairs,    *)
(* connects, subscribes and disconnects, in a loop; another issues         *)
(* commands meanwhile.                                                     *)
Next ==
    \/ Receive
    \/ \E t \in Tasks : Returned(t)
    \/ \E t \in {"loop"} :
          \/ Pair(t)
          \/ PairWithScreenId(t)
          \/ RefreshAuth(t)
          \/ IsAvailable(t)
          \/ Connect(t)
          \/ Subscribe(t)
          \/ Disconnect(t)
    \/ \E t \in {"app"} : Command(t)
    \/ \E t \in Tasks :
          \/ PairResponse(t)
          \/ RefreshResponse(t)
          \/ IsAvailableResponse(t)
          \/ \E r \in Responses : ConnectResponse(t, r)
          \/ \E r \in Responses : CommandResponse(t, r)
          \/ \E r \in Responses : DisconnectResponse(t, r)
          \/ \E r \in Responses : SubscribeResponse(t, r)
          \/ StreamBatch(t)
          \/ StreamEnd(t)
          \/ \E e \in StreamErrors : StreamError(t, e)
          \/ CommandPayloadError(t)
          \/ Cancel(t)
          \/ CallbackReturn(t)

Spec == Init /\ [][Next]_vars

(* The event loop runs every task that can go on: a request sent arrives, *)
(* a reply awaited comes, an awaited observer callback returns, a result   *)
(* reaches the caller.  The server decides what the stream carries; that   *)
(* the stream closes in the end is the assumption C18 makes.               *)
Fairness ==
    /\ WF_vars(Receive)
    /\ \A t \in Tasks : WF_vars(Returned(t))
    /\ SF_vars(\E r \in Responses : SubscribeResponse("loop", r))
    /\ SF_vars(\E r \in Responses : CommandResponse("loop", r))
    /\ SF_vars(CallbackReturn("loop"))
    /\ SF_vars(StreamEnd("loop"))

SpecLive == Spec /\ Fairness

----------------------------------------------------------------------------
(* Functions checked on their own: one call with its arguments drawn from  *)
(* a bounded set, run to its end without another task in between.          *)

(* _process_events(batch) on a client with fields cs, from entry i on.     *)
(* Every observer callback returns; every getNowPlaying request sent on    *)
(* the way is answered rsp.  calls are the entries handed to the observer  *)
(* so far, sent the ofs of the commands sent so far.  The result says what *)
(* was raised, if anything, and at which entry.                            *)
Routed(cs, calls, sent, raised, at) ==
    [fn |-> "_process_events", cs |-> cs, calls |-> calls, sent |-> sent,
     raised |-> raised, at |-> at]

RECURSIVE ProcessBatch(_, _, _, _, _, _)
ProcessBatch(cs, batch, i, rsp, calls, sent) ==
    IF batch = <<>> THEN Routed(cs, calls, sent, "IndexError", 0)
    ELSE IF i > Len(batch)
    THEN Routed(BatchDone(cs, batch[Len(batch)].id), calls, sent, "none", Len(batch))
    ELSE LET e == batch[i]
             o == ProcessEntry(cs, e)
         IN  IF o.stop = "raise"
             THEN Routed(o.cs, calls, sent, "NotSupported", i)
             ELSE IF o.stop = "next"
             THEN ProcessBatch(o.cs, batch, i + 1, rsp, calls, sent)
             ELSE IF e.type # "onPlaybackSpeedChanged"
             THEN ProcessBatch(AfterCallback(o.cs, e), batch, i + 1, rsp,
                               Append(calls, e), sent)
             ELSE \* get_now_playing() after the callback
                  IF ~Connected(o.cs)
                  THEN Routed(o.cs, Append(calls, e), sent, "NotConnected", i)
                  ELSE LET went == [o.cs EXCEPT !.command_offset = @ + 1]
                           h == HandleSessionResult(went, rsp.status, rsp.text)
                           ofs == Append(sent, CommandBody(o.cs))
                       IN  IF SessionOutcome(h, rsp) = "ClientResponseError"
                           THEN Routed(h.cs, Append(calls, e), ofs,
                                       "ClientResponseError", i)
                           ELSE ProcessBatch(h.cs, batch, i + 1, rsp,
                                             Append(calls, e), ofs)

(* the batches handed to _process_events: entry i has id i, and a 'c' or   *)
(* 'S' entry at i carries the identifier i; besides the types of Entries   *)
(* an entry may have a type that _process_event does not know              *)
RECURSIVE BatchesOfLen(_)
BatchesOfLen(n) ==
    IF n = 0 THEN {<<>>}
    ELSE {Append(b, e) : b \in BatchesOfLen(n - 1),
                         e \in Entries(n, n) \cup {Entry(n, "unknownEvent", None, FALSE)}}

Batches == UNION {BatchesOfLen(n) : n \in 1..MaxBatchLen}

(* the clients it is called on: linked, and either unbound or bound to a   *)
(* session whose identifier no entry carries                               *)
RoutedClients ==
    {[screen_id |-> 1, lounge_id_token |-> 1, sid |-> s, gsession |-> s,
      last_event_id |-> s, command_offset |-> 1] : s \in {None, MaxBatchLen + 1}}

ProcessEventsCalls ==
    {[fn |-> "_process_events", cs |-> cs, batch |-> b, rsp |-> r] :
        cs \in RoutedClients, b \in Batches,
        r \in {Rsp(200, {}, {}), Rsp(500, {}, {}), Rsp(410, {}, {"Gone"})}}

ProcessEventsCall ==
    /\ input.fn = "_process_events"
    /\ output = NoResult
    /\ output' = ProcessBatch(input.cs, input.batch, 1, input.rsp, <<>>, <<>>)
    /\ UNCHANGED <<client, pc, op, events, text, result, srvSid, srvOfs,
                   wire, reply, input>>

(* _process_event("loungeStatus", [data]) on a client with the stored     *)
(* screen name and device info st.  data["devices"] is a list of devices,  *)
(* each with a type, a name and, if it has the field, deviceInfo: a JSON   *)
(* text.  The texts are known by name; JsonLoads is json.loads on them,    *)
(* which fails on a text that is not JSON.                                 *)
NoName == "<None>"

JsonNull == [kind |-> "null", brand |-> "", clientName |-> ""]

JsonTexts == {"null", "{}", "tv", "kids", "oops"}

ValidJson(doc) == doc # "oops"

JsonLoads(doc) ==
    IF doc = "null" THEN JsonNull
    ELSE IF doc = "{}" THEN [kind |-> "object", brand |-> "", clientName |-> ""]
    ELSE IF doc = "tv" THEN [kind |-> "object", brand |-> "LG", clientName |-> "TVHTML5"]
    ELSE [kind |-> "object", brand |-> "LG", clientName |-> "TVHTML5_FOR_KIDS"]

(* Python's truth value of a decoded deviceInfo *)
Truthy(info) == info.kind = "object" /\ info # JsonLoads("{}")

BlacklistedClients == {"TVHTML5_FOR_KIDS"}

Stored(name, info) == [screen_name |-> name, device_info |-> info]

StatusResult(st, raised) ==
    [fn |-> "loungeStatus", screen_name |-> st.screen_name,
     device_info |-> st.device_info, raised |-> raised]

(* A handling of the screen that keeps the stored device info when the    *)
(* device has no deviceInfo field; C15 tells the two apart.                *)
ScreenFoundKeepsInfo(st, d) ==
    LET named == [st EXCEPT !.screen_name = d.name] IN
    IF d.deviceInfo = <<>> THEN StatusResult(named, "none")
    ELSE IF ~ValidJson(d.deviceInfo[1]) THEN StatusResult(named, "JSONDecodeError")
    ELSE StatusResult([named EXCEPT !.device_info = JsonLoads(d.deviceInfo[1])], "none")

(* the LOUNGE_SCREEN device d has been found *)
ScreenFound(st, d) ==
    LET named == [st EXCEPT !.screen_name = d.name]
        doc == IF d.deviceInfo = <<>> THEN "null" ELSE d.deviceInfo[1]
    IN  IF ~ValidJson(doc) THEN StatusResult(named, "JSONDecodeError")
        ELSE LET known == [named EXCEPT !.device_info = JsonLoads(doc)] IN
             IF Truthy(known.device_info)
                /\ known.device_info.clientName \in BlacklistedClients
             THEN StatusResult(known, "NotSupported")
             ELSE StatusResult(known, "none")

(* A loop over the devices that takes the first device whatever its type;  *)
(* C14 tells the two apart.                                                *)
LoungeStatusAnyType(st, devices, i) ==
    IF i > Len(devices) THEN StatusResult(st, "none")
    ELSE ScreenFound(st, devices[i])

(* the loop over the devices, from device i on *)
RECURSIVE LoungeStatus(_, _, _)
LoungeStatus(st, devices, i) ==
    IF i > Len(devices) THEN StatusResult(st, "none")
    ELSE IF devices[i].type = "LOUNGE_SCREEN" THEN ScreenFound(st, devices[i])
    ELSE LoungeStatus(st, devices, i + 1)

Devices ==
    {[type |-> ty, name |-> n, deviceInfo |-> f] :
        ty \in {"LOUNGE_SCREEN", "REMOTE_CONTROL"}, n \in {"TV", "Phone"},
        f \in {<<>>} \cup {<<doc>> : doc \in JsonTexts}}

RECURSIVE DeviceLists(_)
DeviceLists(n) ==
    IF n = 0 THEN {<<>>}
    ELSE DeviceLists(n - 1)
         \cup {Append(l, d) : l \in {x \in DeviceLists(n - 1) : Len(x) = n - 1},
                              d \in Devices}

LoungeStatusCalls ==
    {[fn |-> "loungeStatus", st |-> st, devices |-> l] :
        st \in {Stored(NoName, JsonNull), Stored("Old", JsonLoads("tv"))},
        l \in DeviceLists(MaxDevices)}

LoungeStatusCall ==
    /\ input.fn = "loungeStatus"
    /\ output = NoResult
    /\ output' = LoungeStatus(input.st, input.devices, 1)
    /\ UNCHANGED <<client, pc, op, events, text, result, srvSid, srvOfs,
                   wire, reply, input>>

(* NowPlayingEvent(data).  data maps each of its keys to a string; a key   *)
(* is <<>> when data lacks it and <<s>> when data[key] is s.  A Python     *)
(* float is kept in thousandths; an optional field of the event is <<>>    *)
(* for None and <<v>> for the value v.                                     *)
FloatTexts == {"0", "12.5", " 7", "abc"}

IsFloat(s) == s \in {"0", "12.5", " 7"}

(* float(s), which skips surrounding blanks *)
Float(s) == IF s = "0" THEN 0 ELSE IF s = "12.5" THEN 12500 ELSE 7000

StateTexts == {"-1", "1", "1081", "7", "abc"}

State(n) ==
    IF n = -1 THEN "Stopped"
    ELSE IF n = 0 THEN "Buffering"
    ELSE IF n = 1 THEN "Playing"
    ELSE IF n = 2 THEN "Paused"
    ELSE IF n = 3 THEN "Starting"
    ELSE IF n = 1081 THEN "Advertisement"
    ELSE "ValueError"

(* int(s) of the state texts; "abc" is no number *)
IsInt(s) == s # "abc"

ToInt(s) == IF s = "-1" THEN -1 ELSE IF s = "1" THEN 1
            ELSE IF s = "1081" THEN 1081 ELSE 7

(* State.parse: the member with the number the text holds; a text that    *)
(* holds no member's number is taken as Stopped, as apply_state takes it.  *)
StateParse(s) ==
    IF IsInt(s) /\ State(ToInt(s)) # "ValueError" THEN State(ToInt(s)) ELSE "Stopped"

Payload(vid, ct, dur, st) ==
    [videoId |-> vid, currentTime |-> ct, duration |-> dur, state |-> st]

Event(vid, ct, dur, st, raised) ==
    [fn |-> "NowPlayingEvent", video_id |-> vid, current_time |-> ct,
     duration |-> dur, state |-> st, raised |-> raised]

NoEvent(raised) == Event(<<>>, <<>>, <<>>, "", raised)

(* A constructor that reads data["state"] whatever the keys of data, as    *)
(* PlaybackStateEvent does; C16 tells the two apart.                       *)
NowPlayingEventStateRequired(data) ==
    IF data.currentTime # <<>> /\ ~IsFloat(data.currentTime[1])
    THEN NoEvent("ValueError")
    ELSE IF data.duration # <<>> /\ ~IsFloat(data.duration[1])
    THEN NoEvent("ValueError")
    ELSE IF data.state = <<>> THEN NoEvent("KeyError")
    ELSE Event(data.videoId,
               IF data.currentTime = <<>> THEN <<>> ELSE <<Float(data.currentTime[1])>>,
               IF data.duration = <<>> THEN <<>> ELSE <<Float(data.duration[1])>>,
               StateParse(data.state[1]), "none")

NowPlayingEvent(data) ==
    IF data.currentTime # <<>> /\ ~IsFloat(data.currentTime[1])
    THEN NoEvent("ValueError")
    ELSE IF data.duration # <<>> /\ ~IsFloat(data.duration[1])
    THEN NoEvent("ValueError")
    ELSE Event(data.videoId,
               IF data.currentTime = <<>> THEN <<>> ELSE <<Float(data.currentTime[1])>>,
               IF data.duration = <<>> THEN <<>> ELSE <<Float(data.duration[1])>>,
               IF data.state = <<>> THEN "Stopped" ELSE StateParse(data.state[1]),
               "none")

Opt(S) == {<<>>} \cup {<<x>> : x \in S}

NowPlayingCalls ==
    {[fn |-> "NowPlayingEvent", data |-> Payload(vid, ct, dur, st)] :
        vid \in Opt({"", "dQw4w9WgXcQ"}), ct \in Opt(FloatTexts),
        dur \in Opt(FloatTexts), st \in Opt(StateTexts)}

NowPlayingCall ==
    /\ input.fn = "NowPlayingEvent"
    /\ output = NoResult
    /\ output' = NowPlayingEvent(input.data)
    /\ UNCHANGED <<client, pc, op, events, text, result, srvSid, srvOfs,
                   wire, reply, input>>

(* _parse_event_chunks(lines).  A line is the sequence of its characters;  *)
(* the lines of a bind response come from text.splitlines(), without the   *)
(* line end, those of the subscribe stream from readline(), with it.  The  *)
(* batches of the model are JSON arrays of natural numbers.                *)
DigitChars == <<"0", "1", "2", "3", "4", "5", "6", "7", "8", "9">>

IsDigit(c) == \E d \in 1..Len(DigitChars) : DigitChars[d] = c

DigitValue(c) == (CHOOSE d \in 1..Len(DigitChars) : DigitChars[d] = c) - 1

IsSpace(c) == c \in {" ", "\n"}

NotSpace(c) == ~IsSpace(c)

NotNewline(c) == c # "\n"

RECURSIVE Decimal(_, _, _)
Decimal(cs, i, n) ==
    IF i > Len(cs) THEN n ELSE Decimal(cs, i + 1, n * 10 + DigitValue(cs[i]))

(* str.strip(): the line without the blanks and line ends around it *)
Strip(line) ==
    LET at == {i \in 1..Len(line) : NotSpace(line[i])} IN
    IF at = {} THEN <<>>
    ELSE SubSeq(line, CHOOSE i \in at : \A j \in at : i <= j,
                      CHOOSE i \in at : \A j \in at : i >= j)

(* int(line) takes a line of digits with or without a sign before them,    *)
(* blanks around them aside; any other line is a ValueError                *)
IsLength(line) ==
    LET cs == Strip(line)
        ds == IF cs # <<>> /\ cs[1] \in {"+", "-"} THEN Tail(cs) ELSE cs
    IN  ds # <<>> /\ \A i \in 1..Len(ds) : IsDigit(ds[i])

ChunkLength(line) ==
    LET cs == Strip(line) IN
    IF cs[1] = "-" THEN 0 - Decimal(Tail(cs), 1, 0)
    ELSE IF cs[1] = "+" THEN Decimal(Tail(cs), 1, 0)
    ELSE Decimal(cs, 1, 0)

(* json.loads of an array of numbers: at is where the reader stands       *)
(* ("[" expected, a first value or "]", a value, inside a number, after a  *)
(* value, after "]"), n the number being read, val the values read.        *)
RECURSIVE LoadArray(_, _, _, _, _)
LoadArray(cs, i, at, n, val) ==
    IF i > Len(cs)
    THEN IF at = "end" THEN [ok |-> TRUE, val |-> val] ELSE [ok |-> FALSE, val |-> <<>>]
    ELSE LET c == cs[i]
             bad == [ok |-> FALSE, val |-> <<>>]
         IN
         IF at = "number" /\ IsDigit(c)
         THEN LoadArray(cs, i + 1, "number", n * 10 + DigitValue(c), val)
         ELSE IF at = "number" THEN LoadArray(cs, i, "after", 0, Append(val, n))
         ELSE IF IsSpace(c) THEN LoadArray(cs, i + 1, at, n, val)
         ELSE IF at = "start" THEN
              IF c = "[" THEN LoadArray(cs, i + 1, "first", 0, val) ELSE bad
         ELSE IF at \in {"first", "value"} /\ IsDigit(c)
         THEN LoadArray(cs, i + 1, "number", DigitValue(c), val)
         ELSE IF at \in {"first", "after"} /\ c = "]"
         THEN LoadArray(cs, i + 1, "end", 0, val)
         ELSE IF at = "after" /\ c = ","
         THEN LoadArray(cs, i + 1, "value", 0, val)
         ELSE bad

LoadChunk(chunk) == LoadArray(chunk, 1, "start", 0, <<>>)

Parsed(batches, raised) ==
    [fn |-> "_parse_event_chunks", batches |-> batches, raised |-> raised]

(* A count that leaves out the line end of a payload line; C17 tells the  *)
(* two apart.                                                              *)
RemainingNoLineEnd(chunk_remaining, line) == chunk_remaining - Len(line)

(* what is left of the chunk after the payload line *)
Remaining(chunk_remaining, line) == chunk_remaining - Len(line) - 1

RECURSIVE ParseEventChunks(_, _, _, _, _)
ParseEventChunks(lines, k, chunk_remaining, current_chunk, batches) ==
    IF k > Len(lines) THEN Parsed(batches, "none")
    ELSE IF chunk_remaining <= 0
    THEN IF ~IsLength(lines[k]) THEN Parsed(batches, "ValueError")
         ELSE ParseEventChunks(lines, k + 1, ChunkLength(lines[k]), <<>>, batches)
    ELSE LET line == SelectSeq(lines[k], NotNewline)
             chunk == current_chunk \o line
             remaining == Remaining(chunk_remaining, line)
         IN  IF remaining # 0
             THEN ParseEventChunks(lines, k + 1, remaining, chunk, batches)
             ELSE IF ~LoadChunk(chunk).ok THEN Parsed(batches, "JSONDecodeError")
             ELSE ParseEventChunks(lines, k + 1, remaining, chunk,
                                   Append(batches, LoadChunk(chunk).val))

(* Payloads as the server may send them: the lines of a JSON text *)
Payloads ==
    {<<<<"[", "1", ",", "2", "]">>>>,
     <<<<"[", "1", ",">>, <<"2", "]">>>>,
     <<<<"[", "1", ",", " ", "2", "]">>>>,
     <<<<"[", "]">>>>,
     <<<<"[">>, <<"7">>, <<"]">>>>,
     <<<<"[", "1", "0", ",", "2", "0", ",", "3", "0", "]">>>>}

RECURSIVE Digits(_)
Digits(n) ==
    IF n < 10 THEN <<DigitChars[n + 1]>>
    ELSE Append(Digits(n \div 10), DigitChars[(n % 10) + 1])

RECURSIVE FramedLength(_, _)
FramedLength(payload, k) ==
    IF k > Len(payload) THEN 0 ELSE Len(payload[k]) + 1 + FramedLength(payload, k + 1)

(* a well-formed frame: the length line, then the lines of the payload *)
Frame(payload) == <<Digits(FramedLength(payload, 1))>> \o payload

RECURSIVE Streams(_)
Streams(n) ==
    IF n = 0 THEN {<<>>}
    ELSE {<<p>> \o ps : p \in Payloads, ps \in Streams(n - 1)}

RECURSIVE Framed(_, _)
Framed(ps, k) == IF k > Len(ps) THEN <<>> ELSE Frame(ps[k]) \o Framed(ps, k + 1)

(* the lines as readline() gives them *)
WithLineEnds(lines) == [k \in 1..Len(lines) |-> Append(lines[k], "\n")]

(* what may follow the well-formed frames of a stream: nothing, a length *)
(* line that is not a line of digits (signed, not a number, empty, with a  *)
(* blank inside) and then a payload, or a frame whose payload is not JSON  *)
BadFrames ==
    {<<>>,
     <<<<"+", "6">>, <<"[", "1", ",", "2", "]">>>>,
     <<<<"-", "6">>, <<"6">>, <<"[", "1", ",", "2", "]">>>>,
     <<<<"x">>, <<"[", "1", ",", "2", "]">>>>,
     <<<<>>, <<"6">>, <<"[", "1", ",", "2", "]">>>>,
     <<<<"1", " ", "2">>, <<"[", "1", ",", "2", "]">>>>,
     <<<<"6">>, <<"[", "1", ",", "2", ",">>>>,
     <<<<"3">>, <<"1", "]">>>>}

(* a frame whose length line declares less than its payload takes, and   *)
(* then a well-formed frame: the payload in one line, and in two lines     *)
ShortFrames ==
    {<<<<"5">>, <<"[", "1", ",", "2", "]">>,
       <<"6">>, <<"[", "1", ",", "2", "]">>>>,
     <<<<"3">>, <<"[", "1", ",">>, <<"2", "]">>,
       <<"6">>, <<"[", "1", ",", "2", "]">>>>}

ParseEventChunksCalls ==
    {[fn |-> "_parse_event_chunks", payloads |-> ps, bad |-> bad, ends |-> ends,
      lines |-> IF ends THEN WithLineEnds(Framed(ps, 1) \o bad)
                ELSE Framed(ps, 1) \o bad] :
        ps \in UNION {Streams(n) : n \in 0..MaxFrames},
        bad \in BadFrames \cup ShortFrames,
        ends \in BOOLEAN}

ParseEventChunksCall ==
    /\ input.fn = "_parse_event_chunks"
    /\ output = NoResult
    /\ output' = ParseEventChunks(input.lines, 1, 0, <<>>, <<>>)
    /\ UNCHANGED <<client, pc, op, events, text, result, srvSid, srvOfs,
                   wire, reply, input>>

(* load_auth_state(data) on a client whose AuthState is prev: a new       *)
(* AuthState is made and data deserialized into it.  An AuthState and an   *)
(* auth record are functions from attribute names / keys to values.        *)
CURRENT_AUTH_VERSION == 0

(* AuthState.__init__ *)
NewAuthState ==
    [version |-> CURRENT_AUTH_VERSION, screen_id |-> None, lounge_id_token |-> None,
     refresh_token |-> None]

(* store_auth_state() of a client whose AuthState is a *)
StoreAuthState(a) ==
    [screenId |-> a.screen_id, lounge_id_token |-> a.lounge_id_token,
     refresh_token |-> a.refresh_token]

(* AuthState.deserialize: setattr of every key of a record of the current  *)
(* version; data["version"] of a record without the key is a KeyError      *)
Deserialize(a, data) ==
    IF "version" \notin DOMAIN data THEN [auth |-> a, raised |-> "KeyError"]
    ELSE IF data.version = CURRENT_AUTH_VERSION
    THEN [auth |-> [k \in DOMAIN a \cup DOMAIN data |->
                        IF k \in DOMAIN data THEN data[k] ELSE a[k]],
          raised |-> "none"]
    ELSE [auth |-> a, raised |-> "none"]

(* records with the keys of AuthStateData, with the attribute names that   *)
(* serialize() gives, and as store_auth_state() gives them for a client    *)
(* that is new or has been paired by pair() or refresh_auth()              *)
LoadAuthStateCalls ==
    LET states == {NewAuthState,
                   [NewAuthState EXCEPT !.screen_id = 1, !.lounge_id_token = 1]}
        versions == {CURRENT_AUTH_VERSION, CURRENT_AUTH_VERSION + 1}
    IN  {[fn |-> "load_auth_state", prev |-> a, data |-> d] :
            a \in states,
            d \in [version : versions, screenId : ScreenIds, loungeIdToken : Tokens]
                \cup [version : versions, screen_id : ScreenIds,
                      lounge_id_token : Tokens]
                \cup {StoreAuthState(b) : b \in states}}

LoadAuthStateCall ==
    /\ input.fn = "load_auth_state"
    /\ output = NoResult
    /\ output' = Deserialize(NewAuthState, input.data)
    /\ UNCHANGED <<client, pc, op, events, text, result, srvSid, srvOfs,
                   wire, reply, input>>

(* `async with YtLoungeApi(...) as api: body`.  self.conn and self.session *)
(* are None ("none") until __aenter__ has made them, then "open", and      *)
(* "closed" once their close() has run.                                    *)

(* close(), reached while the error raised is pending (or "none"):         *)
(* self.session.close() on None is an AttributeError, which ends close()   *)
(* before self.conn.close()                                                *)
Close(conn, session, raised) ==
    IF session = "none"
    THEN [conn |-> conn, session |-> session, raised |-> "AttributeError"]
    ELSE [conn |-> "closed", session |-> "closed", raised |-> raised]

(* __aenter__, the body and __aexit__, when the step fails_at raises (the  *)
(* making of the connector, the making of the session, the body, or none)  *)
AsyncWith(fails_at) ==
    CASE fails_at = "connector" -> Close("none", "none", "SetupError")
      [] fails_at = "session"   -> Close("open", "none", "SetupError")
      [] fails_at = "body"      -> Close("open", "open", "BodyError")
      [] OTHER                  -> Close("open", "open", "none")

AsyncWithCall ==
    /\ input.fn = "async_with"
    /\ output = NoResult
    /\ output' = AsyncWith(input.fails_at)
    /\ UNCHANGED <<client, pc, op, events, text, result, srvSid, srvOfs,
                   wire, reply, input>>

Calls ==
    ProcessEventsCalls \cup LoungeStatusCalls \cup NowPlayingCalls
        \cup ParseEventChunksCalls \cup LoadAuthStateCalls
        \cup {[fn |-> "async_with", fails_at |-> f] :
                  f \in {"none", "connector", "session", "body"}}

CallsInit ==
    /\ ClientInit
    /\ input \in Calls
    /\ output = NoResult

CallsNext ==
    \/ ProcessEventsCall
    \/ LoungeStatusCall
    \/ NowPlayingCall
    \/ ParseEventChunksCall
    \/ LoadAuthStateCall
    \/ AsyncWithCall

SpecCalls == CallsInit /\ [][CallsNext]_vars

----------------------------------------------------------------------------
(* Properties *)

Token == auth.lounge_id_token

Disconnected == "loungeScreenDisconnected"

(* status and marker of one of the session-loss rows *)
SessionLost(status, marks) ==
    \E row \in LostRows : row[1] = status /\ row[2] \in marks

(* this step clears the session as a session-loss row of that status asks: *)
(* the token goes for 401 only, nothing else changes                       *)
LostEffect(status) ==
    /\ sid' = None /\ gsession' = None /\ last_event_id' = None
    /\ auth'.lounge_id_token = (IF status = 401 THEN None ELSE Token)
    /\ auth'.screen_id = auth.screen_id
    /\ command_offset' = command_offset

(* this step is task t reading response r to a _command() or disconnect()  *)
(* it called itself (not the get_now_playing() inside _process_event,      *)
(* after which the same step goes on with the batch)                       *)
OwnCommandResponse(t, r) ==
    \/ op[t] = "command" /\ CommandResponse(t, r)
    \/ op[t] = "disconnect" /\ DisconnectResponse(t, r)

(* The response a call ends on is in reply' in the step that ends it, so   *)
(* that step is XResponse(t, r) for r = reply'.rsp and for no other r.     *)

(* this step is one of task t *)
Acts(t) == pc'[t] # pc[t] \/ result'[t] # result[t]

(* this step ends task t's call of method o *)
Ends(t, o) == op'[t] = o /\ result[t] = "none" /\ result'[t] # "none"

(* C1: in every reachable state sid is set if and only if gsession is set. *)
C1_SessionAllOrNothing == (sid = None) <=> (gsession = None)

(* connect() has returned with sid set and gsession unset *)
C1_HalfSetSession ==
    /\ op["loop"] = "connect" /\ result["loop"] = "False"
    /\ sid # None /\ gsession = None

(* C2, as stated with the marker in the reason phrase: a response to       *)
(* _command() or disconnect() with status 400 and reason 'Unknown SID' or  *)
(* 410 and 'Gone' unsets sid, gsession and last_event_id and keeps the     *)
(* token; with 401 and 'Expired' it unsets the token too; the call returns *)
(* False.                                                                  *)
C2_SessionLossByReason ==
    [][\A t \in Tasks : Acts(t) =>
        LET r == reply'.rsp IN
        (SessionLost(r.status, r.reason) /\ OwnCommandResponse(t, r))
            => (LostEffect(r.status) /\ result'[t] = "False")]_vars

(* C2, amended: the same, for a response that has the marker in its body,  *)
(* which is where _command() and disconnect() look for it.                 *)
C2_SessionLossOnCommand ==
    [][\A t \in Tasks : Acts(t) =>
        LET r == reply'.rsp IN
        (SessionLost(r.status, r.text) /\ OwnCommandResponse(t, r))
            => (LostEffect(r.status) /\ result'[t] = "False")]_vars

(* a command has returned False on 410 'Gone': session unset, token kept *)
C2_CommandLostSession ==
    /\ op["app"] = "command" /\ result["app"] = "False"
    /\ reply.to = "command" /\ reply.rsp.status = 410 /\ "Gone" \in reply.rsp.text
    /\ sid = None /\ gsession = None /\ last_event_id = None /\ Token # None

(* C3, as stated: a response announcing 400 'Unknown SID', 410 'Gone' or   *)
(* 401 'Expired' changes the state in the same way whichever of connect(), *)
(* subscribe() (which have the reason phrase to look at), _command() and   *)
(* disconnect() (which read the body) receives it.                         *)
C3_UniformOverFour ==
    [][\A t \in Tasks : Acts(t) =>
        /\ \A r \in Responses :
              (SessionLost(r.status, r.reason) /\ SubscribeResponse(t, r))
                  => LostEffect(r.status)
        /\ LET r == reply'.rsp IN
           /\ (SessionLost(r.status, r.reason) /\ ConnectResponse(t, r))
                  => LostEffect(r.status)
           /\ (SessionLost(r.status, r.text) /\ OwnCommandResponse(t, r))
                  => LostEffect(r.status)]_vars

(* C3, amended: session loss is detected by subscribe() (marker in the     *)
(* reason phrase) and by _command() and disconnect() (marker in the body), *)
(* with the same state change, and nothing changes when the marker is      *)
(* absent there; connect() does not detect it: any 401 unsets the token    *)
(* only, any other non-200 response changes nothing.                       *)
C3_UniformOverThree ==
    [][\A t \in Tasks : Acts(t) =>
        /\ \A r \in Responses : SubscribeResponse(t, r) =>
              IF SessionLost(r.status, r.reason)
              THEN LostEffect(r.status) /\ result'[t] = "None"
              ELSE client' = client
        /\ LET r == reply'.rsp IN
           /\ OwnCommandResponse(t, r) =>
                 IF SessionLost(r.status, r.text)
                 THEN LostEffect(r.status) /\ result'[t] = "False"
                 ELSE client' = client
           /\ (r.status # 200 /\ ConnectResponse(t, r)) =>
                 /\ sid' = sid /\ gsession' = gsession
                 /\ last_event_id' = last_event_id
                 /\ command_offset' = command_offset
                 /\ auth'.screen_id = auth.screen_id
                 /\ auth'.lounge_id_token = (IF r.status = 401 THEN None ELSE Token)]_vars

(* subscribe() has returned on 401 with 'Expired' in the reason phrase *)
C3_SubscribeLostSession ==
    /\ op["loop"] = "subscribe" /\ result["loop"] = "None"
    /\ reply.to = "subscribe"
    /\ reply.rsp.status = 401 /\ "Expired" \in reply.rsp.reason
    /\ sid = None /\ gsession = None /\ Token = None

(* C4: an operation called while its precondition is false raises the      *)
(* named error, sends no request and changes no field of the client.       *)
C4_FailFast ==
    [][\A t \in Tasks : Acts(t) =>
        /\ (~connected /\ (Command(t) \/ Subscribe(t) \/ Disconnect(t)))
              => (result'[t] = "NotConnected" /\ client' = client /\ wire' = NoReq)
        /\ (~connected /\ events[t].cur.type = "onPlaybackSpeedChanged"
                /\ CallbackReturn(t))
              => (result'[t] = "NotConnected" /\ client' = client /\ wire' = NoReq)
        /\ (~linked /\ (Connect(t) \/ IsAvailable(t)))
              => (result'[t] = "NotLinked" /\ client' = client /\ wire' = NoReq)
        /\ (~paired /\ RefreshAuth(t))
              => (result'[t] = "NotPaired" /\ client' = client /\ wire' = NoReq)]_vars

(* a command was refused after an earlier one had been issued: the command *)
(* sequence stands where that one left it                                  *)
C4_CommandRefused ==
    /\ op["app"] = "command" /\ result["app"] = "NotConnected"
    /\ ~connected /\ command_offset = 2 /\ wire = NoReq

(* C5: when a batch with a loungeScreenDisconnected entry has been         *)
(* processed, sid, gsession, last_event_id and the token are all unset.    *)
(* (The client holds no playback state.)  Stated for the step that resumes *)
(* from the disconnected callback and finishes the batch.                  *)
C5_DisconnectedBatchClears ==
    [][\A t \in Tasks :
        (/\ CallbackReturn(t)
         /\ events[t].cur.type = Disconnected
         /\ pc'[t] # "callback" /\ result'[t] # "NotSupported")
            => (/\ sid' = None /\ gsession' = None /\ last_event_id' = None
                /\ auth'.lounge_id_token = None)]_vars

(* C6: when the disconnected callback is invoked, sid, gsession and the    *)
(* token are already unset.                                                *)
C6_ClearedBeforeCallback ==
    [][\A t \in Tasks :
        (/\ pc'[t] = "callback" /\ events'[t].cur.type = Disconnected
         /\ (pc[t] # "callback" \/ events'[t] # events[t]))
            => (sid' = None /\ gsession' = None /\ auth'.lounge_id_token = None)]_vars

C8_ConnectHttpError ==
    [][\A t \in Tasks : Acts(t) =>
        LET r == reply'.rsp IN
        (r.status # 200 /\ ConnectResponse(t, r))
            => /\ result'[t] = "False"
               /\ IF r.status = 401
                  THEN /\ auth'.lounge_id_token = None
                       /\ auth'.screen_id = auth.screen_id
                       /\ auth'.screen_id # None
                  ELSE /\ auth' = auth
                       /\ sid' = sid /\ gsession' = gsession
                       /\ last_event_id' = last_event_id]_vars

(* connect() has returned False on 401: paired, no longer linked *)
C8_ConnectUnauthorized ==
    /\ op["loop"] = "connect" /\ result["loop"] = "False"
    /\ reply.to = "bind" /\ reply.rsp.status = 401
    /\ paired /\ ~linked

(* C9: when disconnect() has returned True, sid, gsession and              *)
(* last_event_id are unset.                                                *)
C9_DisconnectDiscardsSession ==
    \A t \in Tasks :
        (op[t] = "disconnect" /\ result[t] = "True")
            => (sid = None /\ gsession = None /\ last_event_id = None)

(* C10: no two commands of one session carry the same ofs: a command sent  *)
(* on the server's current session carries an ofs the server has not yet   *)
(* received on it.                                                         *)
C10_OfsUniqueInSession ==
    (wire.kind = "command" /\ wire.SID = srvSid) => wire.ofs \notin srvOfs

(* C11, as stated: a response to _command() or disconnect() with a non-2xx *)
(* status that matches no session-loss row raises an error and leaves sid, *)
(* gsession, last_event_id, lounge_id_token and screen_id as they were.    *)
C11_NonSuccessRaises ==
    [][\A t \in Tasks : Acts(t) =>
        LET r == reply'.rsp IN
        (/\ OwnCommandResponse(t, r)
         /\ ~(r.status >= 200 /\ r.status < 300)
         /\ ~SessionLost(r.status, r.text) /\ ~SessionLost(r.status, r.reason))
            => (/\ result'[t] = "ClientResponseError"
                /\ sid' = sid /\ gsession' = gsession
                /\ last_event_id' = last_event_id /\ auth' = auth)]_vars

(* C11, amended: the same for a status of 400 or above whose body has no   *)
(* session-loss marker; a status below 400 makes the call return True.     *)
(* Either way no field changes.                                            *)
C11_ErrorStatusRaises ==
    [][\A t \in Tasks : Acts(t) =>
        LET r == reply'.rsp IN
        (OwnCommandResponse(t, r) /\ ~SessionLost(r.status, r.text))
            => (/\ result'[t] = (IF r.status >= 400 THEN "ClientResponseError"
                                                    ELSE "True")
                /\ sid' = sid /\ gsession' = gsession
                /\ last_event_id' = last_event_id /\ auth' = auth)]_vars

(* a command has raised on a 500 response and the session is still there *)
C11_CommandFailed ==
    /\ op["app"] = "command" /\ result["app"] = "ClientResponseError"
    /\ reply.to = "command" /\ reply.rsp.status = 500
    /\ connected /\ linked /\ last_event_id # None

(* an entry of a type the observer has a handler for *)
HasHandler(e) ==
    e.type \in {"onStateChange", "onPlaybackSpeedChanged", "loungeScreenDisconnected"}

(* the example batch [c, S, onStateChange] *)
ExampleBatch ==
    <<Entry(1, "c", 1, FALSE), Entry(2, "S", 2, FALSE),
      Entry(3, "onStateChange", None, FALSE)>>

C13_BlacklistedAborts ==
    (input.fn = "_process_events" /\ output # NoResult) =>
        \A k \in 1..Len(input.batch) :
            (/\ input.batch[k].type = "loungeStatus" /\ input.batch[k].blacklisted
             /\ output.at >= k)
                => /\ output.at = k /\ output.raised = "NotSupported"
                   /\ \A n \in 1..Len(output.calls) : output.calls[n].id < k
                   /\ \A j \in (k + 1)..Len(input.batch) :
                         output.cs.sid # j /\ output.cs.gsession # j
                   /\ output.cs.last_event_id \in {input.cs.last_event_id, None}

(* [c, loungeStatus of a blacklisted client, S] on an unbound client:      *)
(* NotSupported, with sid set and gsession not                             *)
C13_AbortedBetweenIds ==
    /\ input.fn = "_process_events" /\ output # NoResult
    /\ input.cs.sid = None
    /\ Len(input.batch) = 3
    /\ input.batch[1].type = "c" /\ input.batch[3].type = "S"
    /\ input.batch[2].type = "loungeStatus" /\ input.batch[2].blacklisted
    /\ output.raised = "NotSupported"
    /\ output.cs.sid = 1 /\ output.cs.gsession = None

(* the index of the first LOUNGE_SCREEN device of a list, 0 if none *)
FirstScreen(devices) ==
    IF \E i \in 1..Len(devices) : devices[i].type = "LOUNGE_SCREEN"
    THEN CHOOSE i \in 1..Len(devices) :
            /\ devices[i].type = "LOUNGE_SCREEN"
            /\ \A j \in 1..(i - 1) : devices[j].type # "LOUNGE_SCREEN"
    ELSE 0

(* C14: a loungeStatus event without a LOUNGE_SCREEN device raises nothing *)
(* and leaves the stored screen name and device info as they were.         *)
C14_NoScreenNoChange ==
    (/\ input.fn = "loungeStatus" /\ output # NoResult
     /\ FirstScreen(input.devices) = 0)
        => /\ output.raised = "none"
           /\ output.screen_name = input.st.screen_name
           /\ output.device_info = input.st.device_info

(* two remote controls, on a client whose screen name was never set *)
C14_OnlyRemotes ==
    /\ input.fn = "loungeStatus" /\ output # NoResult
    /\ Len(input.devices) = 2 /\ FirstScreen(input.devices) = 0
    /\ input.devices[1].deviceInfo = <<"tv">>
    /\ input.st.screen_name = NoName
    /\ output.screen_name = NoName /\ output.device_info = JsonNull

(* C15: after a loungeStatus event with a LOUNGE_SCREEN device the stored  *)
(* screen name is the name of the first such device and the stored device  *)
(* info is its decoded deviceInfo, None when it has no such field          *)
(* (stated for a deviceInfo that is JSON).                                 *)
C15_FirstScreenStored ==
    (/\ input.fn = "loungeStatus" /\ output # NoResult
     /\ FirstScreen(input.devices) # 0)
        => LET d == input.devices[FirstScreen(input.devices)] IN
           /\ output.screen_name = d.name
           /\ d.deviceInfo = <<>> => output.device_info = JsonNull
           /\ (d.deviceInfo # <<>> /\ ValidJson(d.deviceInfo[1]))
                 => output.device_info = JsonLoads(d.deviceInfo[1])

(* a remote control with device info first, then the screen without any *)
C15_ScreenAfterRemote ==
    /\ input.fn = "loungeStatus" /\ output # NoResult
    /\ Len(input.devices) = 2
    /\ input.devices[1].type = "REMOTE_CONTROL"
    /\ input.devices[1].name = "Phone" /\ input.devices[1].deviceInfo = <<"tv">>
    /\ input.devices[2].type = "LOUNGE_SCREEN"
    /\ input.devices[2].name = "TV" /\ input.devices[2].deviceInfo = <<>>
    /\ input.st.screen_name = "Old"
    /\ output.raised = "none"
    /\ output.screen_name = "TV" /\ output.device_info = JsonNull

(* C16: whichever of the keys state, currentTime, duration and videoId a   *)
(* nowPlaying payload lacks, building the event raises nothing on their    *)
(* account: a missing state gives Stopped, a missing currentTime, duration *)
(* or videoId gives None, and a key the payload has is decoded from its    *)
(* string (a number for the times, the member of State for the state, the  *)
(* string itself for the video id).  Only a present time that is no number *)
(* raises.                                                                 *)
C16_MissingKeysDefault ==
    (input.fn = "NowPlayingEvent" /\ output # NoResult)
        => LET d == input.data
               bad(f) == f # <<>> /\ ~IsFloat(f[1])
           IN  /\ output.raised # "none" <=> (bad(d.currentTime) \/ bad(d.duration))
               /\ output.raised = "none" =>
                     /\ output.video_id = d.videoId
                     /\ d.currentTime = <<>> => output.current_time = <<>>
                     /\ d.duration = <<>> => output.duration = <<>>
                     /\ d.state = <<>> => output.state = "Stopped"
                     /\ d.currentTime = <<"12.5">> => output.current_time = <<12500>>
                     /\ d.duration = <<" 7">> => output.duration = <<7000>>
                     /\ d.state = <<"1081">> => output.state = "Advertisement"
                     /\ d.state = <<"1">> => output.state = "Playing"

(* a payload with a duration only *)
C16_OnlyDuration ==
    /\ input.fn = "NowPlayingEvent" /\ output # NoResult
    /\ input.data = Payload(<<>>, <<>>, <<"12.5">>, <<>>)
    /\ output = Event(<<>>, <<>>, <<12500>>, "Stopped", "none")

RECURSIVE Joined(_, _)
Joined(payload, k) ==
    IF k = Len(payload) THEN payload[k]
    ELSE payload[k] \o <<"\n">> \o Joined(payload, k + 1)

(* the JSON value of a payload: that of its lines, line ends between them *)
PayloadValue(payload) == LoadChunk(Joined(payload, 1)).val

(* C17 as stated: from well-formed frames the decoder emits one batch per  *)
(* frame, in frame order, each the payload framed, and the emitted batches *)
(* give back the stream: no other well-formed stream, read the same way,   *)
(* has the same batches.                                                   *)
C17_StreamRecovered ==
    (input.fn = "_parse_event_chunks" /\ output # NoResult /\ input.bad = <<>>)
        => /\ output.raised = "none"
           /\ output.batches = [k \in 1..Len(input.payloads) |-> PayloadValue(input.payloads[k])]
           /\ \A c \in ParseEventChunksCalls :
                 (c.ends = input.ends /\ c.bad = <<>>
                    /\ ParseEventChunks(c.lines, 1, 0, <<>>, <<>>) = output)
                     => c.lines = input.lines

(* C17: from well-formed frames the decoder emits one batch per frame, in  *)
(* frame order, each the value of the payload framed; the batches give     *)
(* back the payloads' values, frame by frame, and not their text: every    *)
(* well-formed stream with the same batches has as many frames with the    *)
(* same values.                                                            *)
C17_OneBatchPerFrame ==
    (input.fn = "_parse_event_chunks" /\ output # NoResult /\ input.bad = <<>>)
        => /\ output.raised = "none"
           /\ Len(output.batches) = Len(input.payloads)
           /\ \A k \in 1..Len(input.payloads) :
                 /\ LoadChunk(Joined(input.payloads[k], 1)).ok
                 /\ output.batches[k] = PayloadValue(input.payloads[k])
           /\ \A c \in ParseEventChunksCalls :
                 (c.bad = <<>> /\ ParseEventChunks(c.lines, 1, 0, <<>>, <<>>) = output)
                     => /\ Len(c.payloads) = Len(input.payloads)
                        /\ \A k \in 1..Len(c.payloads) :
                              PayloadValue(c.payloads[k]) = PayloadValue(input.payloads[k])

(* a payload of two lines, then one whose length line has two digits *)
C17_TwoFramesDecoded ==
    /\ input.fn = "_parse_event_chunks" /\ output # NoResult
    /\ input.lines = <<<<"7", "\n">>, <<"[", "1", ",", "\n">>, <<"2", "]", "\n">>,
                       <<"1", "1", "\n">>,
                       <<"[", "1", "0", ",", "2", "0", ",", "3", "0", "]", "\n">>>>
    /\ output = Parsed(<<<<1, 2>>, <<10, 20, 30>>>>, "none")

(* this step is one of task t and of no other task *)
StepOf(t) ==
    /\ Settled
    /\ \A u \in Tasks \ {t} : pc'[u] = pc[u] /\ result'[u] = result[u]

(* task t is inside subscribe(), reading the stream or processing a batch *)
Draining(t) ==
    op[t] = "subscribe" /\ pc[t] \in {"stream_wait", "callback", "command_wait"}

(* the getNowPlaying request of a speed event cannot be sent: the command *)
(* sequence is at the cap of the model                                     *)
Capped == command_offset >= MaxOffset

(* C18: subscribe() sends its request once, at the call, and never again; *)
(* it waits for a further batch only if the batch it has just processed    *)
(* left the client connected, and otherwise returns; and, the stream       *)
(* closing in the end, every call of subscribe() returns.                  *)
C18_SubscribeEnds ==
    /\ [][(wire'.kind = "subscribe" /\ wire.kind # "subscribe")
            => \E t \in Tasks : op[t] # "subscribe" /\ op'[t] = "subscribe"]_vars
    /\ [][\A t \in Tasks : (Draining(t) /\ StepOf(t)) =>
            /\ pc'[t] = "stream_wait" => (sid' # None /\ gsession' # None)
            /\ (pc'[t] = "idle" /\ result'[t] = "None"
                    /\ reply' = NoReply /\ pc[t] # "stream_wait")
                  => (sid' = None \/ gsession' = None)]_vars
    /\ (op["loop"] = "subscribe") ~> (op["loop"] # "subscribe" \/ Capped)

(* subscribe() has returned after a batch with loungeScreenDisconnected,  *)
(* which left the client not connected                                     *)
C18_StoppedAfterBatch ==
    /\ op["loop"] = "subscribe" /\ result["loop"] = "None"
    /\ reply = NoReply
    /\ sid = None /\ gsession = None /\ last_event_id # None

(* this step ends task t's call on a failure to read a response *)
Failed(t) == result[t] = "none" /\ result'[t] # "none" /\ reply'.rsp.status = None
             /\ reply'.rsp.reason # {}

(* C19: a cancellation of subscribe() while it awaits the next line or an *)
(* observer callback is raised to the caller, changes none of the fields   *)
(* and leaves sid and gsession both set or both unset.                     *)
C19_CancelLeavesSession ==
    [][\A t \in Tasks :
          (op[t] = "subscribe" /\ pc[t] \in {"stream_wait", "callback"} /\ Cancel(t))
              => /\ result'[t] = "CancelledError"
                 /\ client' = client
                 /\ (sid' = None) <=> (gsession' = None)]_vars

(* C20: while subscribe() drains the stream, a payload cut short at the   *)
(* end of the stream makes it return normally, every other failure of the  *)
(* transport is raised to its caller, and neither changes sid, gsession    *)
(* or the token.                                                           *)
C20_OnlyTruncationSwallowed ==
    [][\A t \in Tasks : (Draining(t) /\ Failed(t)) =>
          /\ \A e \in reply'.rsp.reason :
                result'[t] = (IF reply'.to = "subscribe" /\ e = "ClientPayloadError"
                              THEN "None" ELSE e)
          /\ sid' = sid /\ gsession' = gsession
          /\ auth'.lounge_id_token = Token]_vars

(* C21: a command request sent by another task while subscribe() awaits an *)
(* observer callback in the middle of a batch carries the sid and the      *)
(* gsession of one session, both set.                                      *)
C21_CommandOneSession ==
    (wire.kind = "command" /\ op["loop"] = "subscribe" /\ pc["loop"] = "callback")
        => /\ wire.SID # None /\ wire.gsessionid # None
           /\ wire.SID = wire.gsessionid

(* C22: screen_id is changed only by a step of pair(), refresh_auth() or   *)
(* pair_with_screen_id(), so never by connect(), subscribe(), _command(),  *)
(* disconnect(), the events they process or the session losses they meet;  *)
(* lounge_id_token is changed, besides, only by being unset when a         *)
(* loungeScreenDisconnected callback has returned or a 401 response is     *)
(* handled (the response a call ends on, or the response to the            *)
(* getNowPlaying request of a speed event); so a client that was paired is *)
(* still paired after a session loss.                                      *)
C22_AuthPersists ==
    [][LET Pairing(t) == Acts(t) /\ op'[t] \in {"pair", "refresh_auth", "pair_with_screen_id"}
           Moved(t) == pc'[t] # pc[t] \/ events'[t] # events[t] \/ text'[t] # text[t]
       IN  /\ auth'.screen_id # auth.screen_id => \E t \in Tasks : Pairing(t)
           /\ auth'.lounge_id_token # Token =>
                 \/ \E t \in Tasks : Pairing(t)
                 \/ /\ auth'.lounge_id_token = None
                    /\ \E t \in Tasks :
                          \/ /\ pc[t] = "callback" /\ Moved(t)
                             /\ events[t].cur.type = Disconnected
                          \/ /\ pc[t] \in {"connect_wait", "subscribe_wait",
                                           "command_wait", "disconnect_wait"}
                             /\ reply'.rsp.status = 401
                          \/ /\ pc[t] = "command_wait" /\ reply' = NoReply
                             /\ \E r \in Responses :
                                   r.status = 401 /\ CommandResponse(t, r)]_vars

(* a command has met 401 'Expired': session and token are gone, the       *)
(* screen is still known                                                   *)
C22_ExpiredStillPaired ==
    /\ op["app"] = "command" /\ result["app"] = "False"
    /\ reply.rsp.status = 401
    /\ sid = None /\ Token = None /\ paired

(* C23: loading an auth record whose version is not the current one fails: *)
(* an error is reported and no field of the record is installed, the       *)
(* AuthState being the one before the load or a new one.                   *)
C23_WrongVersionFails ==
    (/\ input.fn = "load_auth_state" /\ output # NoResult
     /\ "version" \in DOMAIN input.data
     /\ input.data.version # CURRENT_AUTH_VERSION)
        => /\ output.raised # "none"
           /\ output.auth \in {input.prev, NewAuthState}

(* C24: however the `async with` block of the client ends (normally, by an *)
(* exception of the body, or by the setup failing part-way) no transport   *)
(* resource that was opened is left open, and the caller gets the error of *)
(* the step that failed, if any.                                           *)
C24_ResourcesReleased ==
    (input.fn = "async_with" /\ output # NoResult)
        => /\ output.conn # "open" /\ output.session # "open"
           /\ output.raised = CASE input.fails_at \in {"connector", "session"} -> "SetupError"
                                [] input.fails_at = "body" -> "BodyError"
                                [] OTHER -> "none"

(* C25: when _process_events has processed a non-empty batch to its end,   *)
(* last_event_id is the id of the batch's final entry, whatever the type   *)
(* of that entry.                                                          *)
C25_LastIdOfFinalEntry ==
    (input.fn = "_process_events" /\ output # NoResult /\ output.raised = "none")
        => output.cs.last_event_id = input.batch[Len(input.batch)].id

(* a batch ending with an entry of an unknown type, after a 'c' entry, has *)
(* been processed to its end                                               *)
C25_FinalEntryUnknown ==
    /\ input.fn = "_process_events" /\ output # NoResult /\ output.raised = "none"
    /\ Len(input.batch) = MaxBatchLen
    /\ input.batch[1].type = "c"
    /\ input.batch[MaxBatchLen].type = "unknownEvent"
    /\ output.cs.last_event_id = MaxBatchLen

(* C26: a batch processed on a bound client, that neither starts a session *)
(* (no 'c' or 'S' entry) nor ends it, does not lower last_event_id.        *)
C26_LastIdNeverDecreases ==
    (/\ input.fn = "_process_events" /\ output # NoResult /\ output.raised = "none"
     /\ Connected(input.cs)
     /\ \A i \in 1..Len(input.batch) : input.batch[i].type \notin {"c", "S"}
     /\ output.cs.sid = input.cs.sid /\ output.cs.gsession = input.cs.gsession)
        => output.cs.last_event_id >= input.cs.last_event_id

(* C27, as stated: the RID query parameter of a command request equals the *)
(* ofs field of its body.                                                  *)
C27_RidEqualsOfs == wire.kind = "command" => wire.RID = wire.ofs

(* C27, amended: the RID query parameter of a command request is the ofs   *)
(* field of its body plus one (ofs is the command sequence before the      *)
(* request's increment, RID the sequence after it).                        *)
C27_RidFollowsOfs == wire.kind = "command" => wire.RID = wire.ofs + 1

(* the second command of a session is on the wire *)
C27_SecondCommand == wire.kind = "command" /\ wire.ofs = 2 /\ wire.RID = 3

(* C28: when the well-formed frames of a stream are followed by a length   *)
(* line that is not a line of digits, or by a completed frame whose        *)
(* payload is not JSON, the decoder emits the batches of the well-formed   *)
(* frames and then fails, emitting no further batch.                       *)
C28_MalformedFails ==
    (/\ input.fn = "_parse_event_chunks" /\ output # NoResult
     /\ input.bad \in BadFrames \ {<<>>})
        => /\ output.raised # "none"
           /\ output.batches = [k \in 1..Len(input.payloads) |->
                                    PayloadValue(input.payloads[k])]

(* C29: when the playback_speed_changed callback of an                     *)
(* onPlaybackSpeedChanged event has returned, the next thing the task does *)
(* is to send one getNowPlaying command, which takes the next number of    *)
(* the command sequence (the cap of the model's sequence aside).           *)
C29_NowPlayingAfterSpeed ==
    [][\A t \in Tasks :
          (/\ events[t].cur.type = "onPlaybackSpeedChanged"
           /\ CallbackReturn(t) /\ ~Capped)
              => /\ wire'.kind = "command"
                 /\ wire'.ofs = command_offset
                 /\ command_offset' = command_offset + 1
                 /\ pc'[t] = "command_wait"]_vars

(* C30: a noop entry and an entry of unknown type have no effect: the      *)
(* batch is processed as the batch without these entries is (the same      *)
(* callbacks, the same requests, the same error if any, the same fields,   *)
(* last_event_id aside), and when no other entry raises it is processed to *)
(* its end.                                                                *)
C30_IgnoredEntries ==
    (input.fn = "_process_events" /\ output # NoResult)
        => LET kept == SelectSeq(input.batch,
                                 LAMBDA e : e.type \notin {"noop", "unknownEvent"})
               rest == IF kept = <<>> THEN Routed(input.cs, <<>>, <<>>, "none", 0)
                       ELSE ProcessBatch(input.cs, kept, 1, input.rsp, <<>>, <<>>)
           IN  /\ output.calls = rest.calls
               /\ output.sent = rest.sent
               /\ output.raised = rest.raised
               /\ [output.cs EXCEPT !.last_event_id = None]
                      = [rest.cs EXCEPT !.last_event_id = None]
               /\ output.raised = "none" => output.at = Len(input.batch)

(* a noop and an entry of unknown type around an onStateChange: one        *)
(* callback, the batch processed to its end                                *)
C30_IgnoredAroundStateChange ==
    /\ input.fn = "_process_events" /\ output # NoResult
    /\ Len(input.batch) = 3
    /\ input.batch[1].type = "noop"
    /\ input.batch[2].type = "onStateChange"
    /\ input.batch[3].type = "unknownEvent"
    /\ output.calls = <<input.batch[2]>>
    /\ output.sent = <<>> /\ output.raised = "none" /\ output.at = 3
    /\ [output.cs EXCEPT !.last_event_id = None] = [input.cs EXCEPT !.last_event_id = None]

(* C31: when connect() has returned, its result is connected(): True only  *)
(* if the client is connected, False only if it is not.                    *)
C31_ConnectResultIsConnected ==
    \A t \in Tasks :
        (op[t] = "connect" /\ result[t] \in {"True", "False"})
            => (result[t] = "True" <=> connected)

(* C32: in every reachable state connected() implies linked() and linked() *)
(* implies paired(), and a subscribe, command or disconnect request on the *)
(* wire carries a set lounge_id_token.                                     *)
C32_PredicatesNested ==
    /\ connected => linked
    /\ linked => paired
    /\ wire.kind \in {"subscribe", "command", "terminate"}
          => wire.loungeIdToken # None

(* C33: when connect() has failed with NotSupported the client is not      *)
(* connected.                                                              *)
C33_UnsupportedNotBound ==
    \A t \in Tasks :
        (op[t] = "connect" /\ result[t] = "NotSupported") => ~connected

(* C34: a reply to a command that was sent before the client's present     *)
(* session was made leaves the sid, the gsession and the token of the      *)
(* client as they are.  (The command of task t has reached the server, and *)
(* the server has received no command on its newest session, to which the  *)
(* client is bound: the command was sent under an earlier session.)        *)
C34_LateReplyKeepsSession ==
    [][\A t \in Tasks :
          (/\ op[t] = "command" /\ pc[t] = "command_wait" /\ wire.kind = "none"
           /\ sid = srvSid /\ gsession = srvSid /\ sid # None /\ srvOfs = {}
           /\ \E r \in Responses : CommandResponse(t, r))
              => /\ sid' = sid /\ gsession' = gsession
                 /\ auth'.lounge_id_token = Token]_vars

(* C35: a connect() or subscribe() that is processing the entries of a     *)
(* batch does not end with NotConnected.                                   *)
C35_EventsNeverNotConnected ==
    [][\A t \in Tasks :
          (op[t] \in {"connect", "subscribe"}
              /\ pc[t] \in {"callback", "command_wait"})
              => result'[t] # "NotConnected"]_vars

(* C36: of the frames begun by a length line none is dropped silently:     *)
(* when the well-formed frames of a stream are followed by a frame whose   *)
(* payload overshoots the declared length and by one more well-formed      *)
(* frame, the decoder reports an error or emits a batch for each of them.  *)
C36_NoFrameDropped ==
    (/\ input.fn = "_parse_event_chunks" /\ output # NoResult
     /\ input.bad \in ShortFrames)
        => \/ output.raised # "none"
           \/ Len(output.batches) = Len(input.payloads) + 2

(* C37: load_auth_state on the record that store_auth_state() returned for *)
(* the client raises nothing and gives an AuthState with the same          *)
(* screen_id, lounge_id_token and refresh_token.                           *)
C37_StoredStateRoundTrips ==
    (/\ input.fn = "load_auth_state" /\ output # NoResult
     /\ input.prev.screen_id # None
     /\ input.data = StoreAuthState(input.prev))
        => /\ output.raised = "none"
           /\ output.auth.screen_id = input.prev.screen_id
           /\ output.auth.lounge_id_token = input.prev.lounge_id_token
           /\ output.auth.refresh_token = input.prev.refresh_token

====
